---- MODULE Spec2Model ----
(***************************************************************************)
(* A model of src/convert.py: the variant identity resolution functions    *)
(* ensure_four, lift_over, lift_rsids and neale_wrangler, and reformat_gwas *)
(* that calls them.  Column values                                         *)
(* are strings (TLC evaluates Len, SubSeq and \o on strings), a polars     *)
(* null is the value Null, and a table is a sequence of records.           *)
(***************************************************************************)
EXTENDS Integers, Sequences, FiniteSets, TLC

VARIABLES
    pc,         \* position inside the function that is running
    df,         \* the working table (the local variable df)
    df0,        \* the table the function was called with
    cols,       \* ensure_four: the column names of df
    err,        \* the exception that ended the function, or Null
    ret,        \* the table the function returned (once pc = "done")
    counts,     \* ensure_four: accepted_count / unaccepted_count / total
    files,      \* lift_over: the temporary files, name -> [exists, lines]
    env,        \* lift_over: which of the paths handed in exist
    invoked,    \* lift_over: subprocess.run has been called
    shards,     \* the lookup directory: chromosome -> rows of the shard
    chrs,       \* the chromosomes still to be visited by the loop
    mapper_df,  \* neale_wrangler: the rows collected in mapper_df
    joins,      \* neale_wrangler: the four join columns of the last iteration
    reads,      \* the chromosomes whose shard was read, in the order of reading
    cols0,      \* ensure_four: the column names of the table it was called with
    rsid_df,    \* reformat_gwas: the rsID records that have CHR and BP
    rsid_null_df, \* reformat_gwas: the rsID records that lack CHR or BP
    neale_df,   \* reformat_gwas: the positional records
    initial_build, \* reformat_gwas: the build of the input, "hg19" or "hg38"
    stack,      \* reformat_gwas: the call that is running, "" outside reformat_gwas
    calls       \* reformat_gwas: the calls made and returned so far, in order

vars == <<pc, df, df0, cols, err, ret, counts, files, env, invoked, shards,
          chrs, mapper_df, joins, reads, cols0, rsid_df, rsid_null_df, neale_df,
          initial_build, stack, calls>>

(***************************************************************************)
(* Bounds of the model.                                                    *)
(***************************************************************************)
MaxRowsEF == 2
MaxRowsLO == 2
MaxRowsLR == 2
MaxRowsNW == 2
MaxShardRows == 2

Null == "<null>"
\* a file that does not exist, and a file with the given lines
Absent == [exists |-> FALSE, lines |-> <<>>]
File(lines) == [exists |-> TRUE, lines |-> lines]

IsNull(v) == v = Null

(***************************************************************************)
(* Strings.                                                                *)
(***************************************************************************)
Ch(s, i) == IF i >= 1 /\ i <= Len(s) THEN SubSeq(s, i, i) ELSE ""

LowerLetters == "abcdefghijklmnopqrstuvwxyz"
UpperLetters == "ABCDEFGHIJKLMNOPQRSTUVWXYZ"

\* the letters of alphabet a mapped to the letters of alphabet b
LetterMap(a, b) ==
    [c \in {Ch(a, k) : k \in 1..Len(a)} |-> Ch(b, CHOOSE k \in 1..Len(a) : Ch(a, k) = c)]

ToUpperMap == LetterMap(LowerLetters, UpperLetters)
ToLowerMap == LetterMap(UpperLetters, LowerLetters)

UpperCh(c) == IF c \in DOMAIN ToUpperMap THEN ToUpperMap[c] ELSE c
LowerCh(c) == IF c \in DOMAIN ToLowerMap THEN ToLowerMap[c] ELSE c

RECURSIVE MapStr(_, _)
MapStr(s, up) ==
    IF Len(s) = 0 THEN ""
    ELSE (IF up THEN UpperCh(Ch(s, 1)) ELSE LowerCh(Ch(s, 1))) \o MapStr(Tail(s), up)

\* polars str.to_uppercase / str.to_lowercase (null stays null)
to_uppercase(s) == IF IsNull(s) THEN Null ELSE MapStr(s, TRUE)
to_lowercase(s) == IF IsNull(s) THEN Null ELSE MapStr(s, FALSE)

\* s has the literal p at position i
HasAt(s, i, p) == i >= 1 /\ i + Len(p) - 1 <= Len(s) /\ SubSeq(s, i, i + Len(p) - 1) = p

\* polars str.replace(p, r) with a literal pattern: the first occurrence only
replace_first(s, p, r) ==
    IF IsNull(s) THEN Null
    ELSE IF \E i \in 1..Len(s) : HasAt(s, i, p)
    THEN LET i == CHOOSE i \in 1..Len(s) :
                    HasAt(s, i, p) /\ \A j \in 1..(i - 1) : ~HasAt(s, j, p)
         IN SubSeq(s, 1, i - 1) \o r \o SubSeq(s, i + Len(p), Len(s))
    ELSE s

\* polars str.replace("(?i)^chr", "")
strip_chr_prefix(s) ==
    IF IsNull(s) THEN Null
    ELSE IF Len(s) >= 3 /\ MapStr(SubSeq(s, 1, 3), FALSE) = "chr"
    THEN SubSeq(s, 4, Len(s))
    ELSE s

RECURSIVE ReplaceChars(_, _, _)
ReplaceChars(s, from, to) ==
    IF Len(s) = 0 THEN ""
    ELSE (IF Ch(s, 1) \in from THEN to ELSE Ch(s, 1)) \o ReplaceChars(Tail(s), from, to)

\* polars str.replace_all with a pattern that matches single characters
replace_all(s, from, to) == IF IsNull(s) THEN Null ELSE ReplaceChars(s, from, to)

\* polars concat_str(..., separator = sep): null as soon as one part is null
RECURSIVE JoinStr(_, _)
JoinStr(parts, sep) ==
    IF Len(parts) = 0 THEN ""
    ELSE IF Len(parts) = 1 THEN parts[1]
    ELSE parts[1] \o sep \o JoinStr(Tail(parts), sep)

concat_str(parts, sep) ==
    IF \E i \in 1..Len(parts) : IsNull(parts[i]) THEN Null ELSE JoinStr(parts, sep)

\* str.split(sep): the pieces of s between the occurrences of the character sep
RECURSIVE SplitFrom(_, _, _)
SplitFrom(s, sep, cur) ==
    IF Len(s) = 0 THEN <<cur>>
    ELSE IF Ch(s, 1) = sep THEN <<cur>> \o SplitFrom(Tail(s), sep, "")
    ELSE SplitFrom(Tail(s), sep, cur \o Ch(s, 1))

split(s, sep) == SplitFrom(s, sep, "")

\* str.split(sep).list.get(i), i counted from 0; null for a null string
split_get(s, sep, i) ==
    IF IsNull(s) THEN Null
    ELSE LET p == split(s, sep) IN IF i + 1 <= Len(p) THEN p[i + 1] ELSE Null

(***************************************************************************)
(* The two regular expressions (ensure_four, lines 20-22).                 *)
(***************************************************************************)
Digits == {"0", "1", "2", "3", "4", "5", "6", "7", "8", "9"}
ChromClass == Digits \cup {"X", "Y", "x", "y"}
SepClass == {"_", ":", "+"}
AlleleClass == {"A", "G", "C", "T", "a", "g", "c", "t"}

\* the last index of the longest run of characters of class C that starts at i
\* (i - 1 when s[i] is not in C)
RECURSIVE RunEnd(_, _, _)
RunEnd(s, i, C) == IF Ch(s, i) \in C THEN RunEnd(s, i + 1, C) ELSE i - 1

\* (?i)rs[0-9]+ : the end of the match that starts at i, 0 when there is none
RsidEnd(s, i) ==
    IF Ch(s, i) \in {"r", "R"} /\ Ch(s, i + 1) \in {"s", "S"} /\ Ch(s, i + 2) \in Digits
    THEN RunEnd(s, i + 2, Digits)
    ELSE 0

\* (?i)[0-9XY]{1,2}[_:\+][0-9]+[_:\+][AGCT]+[_:\+][AGCT]+ : the end of the match
\* that starts at i, 0 when there is none
NealeEnd(s, i) ==
    LET c == IF Ch(s, i) \in ChromClass /\ Ch(s, i + 1) \in ChromClass
                /\ Ch(s, i + 2) \in SepClass
             THEN i + 2
             ELSE IF Ch(s, i) \in ChromClass /\ Ch(s, i + 1) \in SepClass
             THEN i + 1
             ELSE 0
        d == RunEnd(s, c + 1, Digits)
        a == RunEnd(s, d + 2, AlleleClass)
        b == RunEnd(s, a + 2, AlleleClass)
    IN IF c = 0 THEN 0
       ELSE IF d < c + 1 \/ Ch(s, d + 1) \notin SepClass THEN 0
       ELSE IF a < d + 2 \/ Ch(s, a + 1) \notin SepClass THEN 0
       ELSE IF b < a + 2 THEN 0
       ELSE b

\* str.contains: the pattern matches somewhere in s (null for a null string,
\* which every caller below treats as "not true")
contains_rsid(s) == ~IsNull(s) /\ \E i \in 1..Len(s) : RsidEnd(s, i) > 0
contains_neale(s) == ~IsNull(s) /\ \E i \in 1..Len(s) : NealeEnd(s, i) > 0
contains_accepted(s) == contains_rsid(s) \/ contains_neale(s)

\* str.extract(pattern): the leftmost match
extract_rsid(s) ==
    LET i == CHOOSE i \in 1..Len(s) :
                 RsidEnd(s, i) > 0 /\ \A j \in 1..(i - 1) : RsidEnd(s, j) = 0
    IN SubSeq(s, i, RsidEnd(s, i))

extract_neale(s) ==
    LET i == CHOOSE i \in 1..Len(s) :
                 NealeEnd(s, i) > 0 /\ \A j \in 1..(i - 1) : NealeEnd(s, j) = 0
    IN SubSeq(s, i, NealeEnd(s, i))

\* the whole string has the canonical shape
FullRsid(s) ==
    /\ ~IsNull(s) /\ Len(s) >= 3
    /\ Ch(s, 1) = "r" /\ Ch(s, 2) = "s"
    /\ \A k \in 3..Len(s) : Ch(s, k) \in Digits

CanonChroms ==
    {"1", "2", "3", "4", "5", "6", "7", "8", "9", "10", "11", "12", "13", "14",
     "15", "16", "17", "18", "19", "20", "21", "22", "X", "Y"}

NonEmptyOver(s, C) == Len(s) >= 1 /\ \A k \in 1..Len(s) : Ch(s, k) \in C

FullPositional(s) ==
    /\ ~IsNull(s)
    /\ LET p == split(s, "_")
       IN /\ Len(p) = 4
          /\ p[1] \in CanonChroms
          /\ NonEmptyOver(p[2], Digits)
          /\ NonEmptyOver(p[3], {"A", "C", "G", "T"})
          /\ NonEmptyOver(p[4], {"A", "C", "G", "T"})

\* str.count_matches(accepted_pat): the non-overlapping matches, found left to
\* right; at one position the alternative rs[0-9]+ is tried first
RECURSIVE CountFrom(_, _)
CountFrom(s, i) ==
    IF i > Len(s) THEN 0
    ELSE LET e == IF RsidEnd(s, i) > 0 THEN RsidEnd(s, i) ELSE NealeEnd(s, i)
         IN IF e > 0 THEN 1 + CountFrom(s, e + 1) ELSE CountFrom(s, i + 1)

count_matches(s) == IF IsNull(s) THEN 0 ELSE CountFrom(s, 1)

RECURSIVE SumSeq(_)
SumSeq(q) == IF Len(q) = 0 THEN 0 ELSE q[1] + SumSeq(Tail(q))

MapRows(t, F(_)) == [i \in 1..Len(t) |-> F(t[i])]

\* the sequences over S of length lo..hi
SeqsOf(S, lo, hi) == UNION {[1..n -> S] : n \in lo..hi}

(***************************************************************************)
(* ensure_four (lines 14-127), one action per block of the function.       *)
(***************************************************************************)
Row(snp, chr, bp, a2, a1) == [SNP |-> snp, CHR |-> chr, BP |-> bp, A2 |-> a2, A1 |-> a1]

FourCols == {"CHR", "BP", "A2", "A1"}

\* the tables ensure_four is run on: the column sets and the rows
EFColSets ==
    { {"SNP"}, {"SNP"} \cup FourCols, FourCols, {"SNP", "CHR", "BP"}, {"CHR", "BP"} }

EFRows ==
    { Row("rs123", "1", "100", "A", "G"),
      Row("RS7:100:A:G", Null, Null, "a", "g"),
      Row("1:100:a:g", "chr1", "100", "a", "g"),
      Row("23_5_C_T", "23", "5", "C", "T"),
      Row("99+7+T+C", "99", "7", "T", "C"),
      Row("foo", "1", "100", "A", "G"),
      Row("foo", "chrUn1", "100", "A", "G"),
      Row("bar", Null, "100", "A", "G"),
      Row("baz", "1", "100", "A", "Grs5"),
      Row(Null, "2", "9", "C", "T") }

\* a row of a table that has only the columns cs
Project(r, cs) == [c \in DOMAIN r |-> IF c \in cs THEN r[c] ELSE Null]

NoCounts == [accepted |-> 0, unaccepted |-> 0, total |-> 0]

rgIdle == <<cols0, rsid_df, rsid_null_df, neale_df, initial_build, stack, calls>>

\* a function that runs on its own, outside reformat_gwas
InitAlone ==
    /\ rsid_df = <<>> /\ rsid_null_df = <<>> /\ neale_df = <<>>
    /\ initial_build = "hg38"
    /\ stack = "" /\ calls = <<>>

efIdle == <<files, env, invoked, shards, chrs, mapper_df, joins, reads, rgIdle>>

InitIdle ==
    /\ files = <<>> /\ env = <<>> /\ invoked = FALSE /\ shards = <<>>
    /\ chrs = <<>> /\ mapper_df = <<>> /\ joins = <<>> /\ reads = <<>>

InitEF ==
    /\ pc = "ef_check"
    /\ cols \in EFColSets
    /\ \E t \in SeqsOf(EFRows, 1, MaxRowsEF) : df = MapRows(t, LAMBDA r : Project(r, cols))
    /\ df0 = df
    /\ cols0 = cols
    /\ err = Null /\ ret = <<>> /\ counts = NoCounts
    /\ InitIdle
    /\ InitAlone

\* lines 23-30: SNP or all of CHR, BP, A2, A1 must be columns
EF_Check ==
    /\ pc = "ef_check"
    /\ IF "SNP" \in cols \/ FourCols \subseteq cols
       THEN pc' = "ef_make_snp" /\ err' = err
       ELSE pc' = "failed" /\ err' = "AssertionError"
    /\ UNCHANGED <<df, df0, cols, ret, counts>>
    /\ UNCHANGED efIdle

\* lines 33-46: without a SNP column, build it from CHR, BP, A2, A1
make_snp(r) ==
    LET chr == replace_first(r.CHR, "chr", "")
    IN [r EXCEPT !.CHR = chr,
                 !.SNP = concat_str(<<chr, r.BP, to_uppercase(r.A2), to_uppercase(r.A1)>>, "_")]

EF_MakeSnp ==
    /\ pc = "ef_make_snp"
    /\ IF "SNP" \notin cols
       THEN df' = MapRows(df, make_snp) /\ cols' = cols \cup {"SNP"}
       ELSE UNCHANGED <<df, cols>>
    /\ pc' = "ef_clean_rsid"
    /\ UNCHANGED <<df0, err, ret, counts>>
    /\ UNCHANGED efIdle

\* lines 49-54: an identifier that contains an rsID becomes that rsID, lower-cased
clean_rsid(r) ==
    IF contains_rsid(r.SNP) THEN [r EXCEPT !.SNP = to_lowercase(extract_rsid(r.SNP))] ELSE r

EF_CleanRsid ==
    /\ pc = "ef_clean_rsid"
    /\ df' = MapRows(df, clean_rsid)
    /\ pc' = "ef_clean_neale"
    /\ UNCHANGED <<df0, cols, err, ret, counts>>
    /\ UNCHANGED efIdle

\* lines 57-67: an identifier that contains a positional pattern becomes that
\* pattern, with _ separators and upper-cased
clean_neale(r) ==
    IF contains_neale(r.SNP)
    THEN [r EXCEPT !.SNP = to_uppercase(replace_all(extract_neale(r.SNP), {":", "+"}, "_"))]
    ELSE r

EF_CleanNeale ==
    /\ pc = "ef_clean_neale"
    /\ df' = MapRows(df, clean_neale)
    /\ pc' = "ef_fill_four"
    /\ UNCHANGED <<df0, cols, err, ret, counts>>
    /\ UNCHANGED efIdle

\* lines 70-80: each of CHR, BP, A2, A1 that is no column is taken from the
\* positional identifier, and is null for any other identifier
FourIndex(c) == CASE c = "CHR" -> 0 [] c = "BP" -> 1 [] c = "A2" -> 2 [] c = "A1" -> 3

fill_four(r, cs) ==
    [c \in DOMAIN r |->
        IF c \in FourCols /\ c \notin cs
        THEN IF contains_neale(r.SNP) THEN split_get(r.SNP, "_", FourIndex(c)) ELSE Null
        ELSE r[c]]

EF_FillFour ==
    /\ pc = "ef_fill_four"
    /\ df' = MapRows(df, LAMBDA r : fill_four(r, cols))
    /\ cols' = cols \cup FourCols
    /\ pc' = "ef_upper"
    /\ UNCHANGED <<df0, err, ret, counts>>
    /\ UNCHANGED efIdle

\* lines 81-85: upper-case the alleles and the chromosome, drop a "chr"
upper_four(r) ==
    [r EXCEPT !.A1 = to_uppercase(r.A1),
              !.A2 = to_uppercase(r.A2),
              !.CHR = to_uppercase(replace_first(r.CHR, "chr", ""))]

EF_Upper ==
    /\ pc = "ef_upper"
    /\ df' = MapRows(df, upper_four)
    /\ pc' = "ef_xy"
    /\ UNCHANGED <<df0, cols, err, ret, counts>>
    /\ UNCHANGED efIdle

\* lines 88-99: chromosome 23 is X, 24 is Y
xy(r) == [r EXCEPT !.CHR = IF r.CHR = "23" THEN "X" ELSE IF r.CHR = "24" THEN "Y" ELSE r.CHR]

EF_XY ==
    /\ pc = "ef_xy"
    /\ df' = MapRows(df, xy)
    /\ pc' = "ef_repair"
    /\ UNCHANGED <<df0, cols, err, ret, counts>>
    /\ UNCHANGED efIdle

\* lines 102-117: an identifier that contains neither pattern is rebuilt from
\* CHR, BP, A2, A1 (a null identifier stays null)
repair(r) ==
    IF ~IsNull(r.SNP) /\ ~contains_accepted(r.SNP)
    THEN [r EXCEPT !.SNP = concat_str(<<r.CHR, r.BP, to_uppercase(r.A2), to_uppercase(r.A1)>>, "_")]
    ELSE r

EF_Repair ==
    /\ pc = "ef_repair"
    /\ df' = MapRows(df, repair)
    /\ pc' = "ef_filter"
    /\ UNCHANGED <<df0, cols, err, ret, counts>>
    /\ UNCHANGED efIdle

\* lines 120-127: count, keep the rows whose identifier contains a pattern
accepted_row(r) == contains_accepted(r.SNP)

EF_Filter ==
    /\ pc = "ef_filter"
    /\ LET accepted_count == SumSeq(MapRows(df, LAMBDA r : count_matches(r.SNP)))
       IN counts' = [accepted |-> accepted_count,
                     unaccepted |-> Len(df) - accepted_count,
                     total |-> Len(df)]
    /\ df' = SelectSeq(df, accepted_row)
    /\ ret' = df'
    /\ pc' = "done"
    /\ UNCHANGED <<df0, cols, err>>
    /\ UNCHANGED efIdle

NextEF ==
    \/ EF_Check \/ EF_MakeSnp \/ EF_CleanRsid \/ EF_CleanNeale \/ EF_FillFour
    \/ EF_Upper \/ EF_XY \/ EF_Repair \/ EF_Filter

SpecEF == InitEF /\ [][NextEF]_vars

\* lines 14-127 as one function of the table and its column names: the blocks
\* above in the order of the code.  The caller has passed the test of
\* lines 23-30.
ensure_four(t, cs) ==
    LET t1 == IF "SNP" \notin cs THEN MapRows(t, make_snp) ELSE t
        t2 == MapRows(MapRows(t1, clean_rsid), clean_neale)
        t3 == MapRows(t2, LAMBDA r : fill_four(r, cs))
        t4 == MapRows(MapRows(MapRows(t3, upper_four), xy), repair)
    IN SelectSeq(t4, accepted_row)

\* C1: every record ensure_four returns has an identifier that, as a whole
\* string, is a lower-case rsID or CHROM_POS_ALLELE_ALLELE with CHROM in
\* 1-22, X, Y, the records rebuilt by the repair pass included.
C1_OutputCanonical ==
    pc = "done" =>
        \A i \in 1..Len(ret) : FullRsid(ret[i].SNP) \/ FullPositional(ret[i].SNP)

\* C11: ensure_four run on the table it returned, which has all five
\* columns, returns that table again.
C11_Idempotent ==
    pc = "done" => ensure_four(ret, cols) = ret

\* the whole of s is one match of the positional pattern
PositionalShape(s) == contains_neale(s) /\ extract_neale(s) = s

\* C12: in a returned record with a positional identifier, each of CHR, BP,
\* A2, A1 that was no column of the input, and so was taken from the
\* identifier, is the component of the returned identifier at its place.
C12_FieldsAreComponents ==
    pc = "done" =>
        \A i \in 1..Len(ret) : PositionalShape(ret[i].SNP) =>
            \A c \in FourCols \ cols0 : ret[i][c] = split_get(ret[i].SNP, "_", FourIndex(c))

\* C16: the accepted count is the number of records returned and the dropped
\* count is the number of records of the input that were not returned.
C16_CountsAreRecordCounts ==
    pc = "done" =>
        /\ counts.accepted = Len(ret)
        /\ counts.unaccepted = Len(df0) - Len(ret)

(***************************************************************************)
(* lift_over (lines 130-213), one action per block of the function.        *)
(***************************************************************************)
DigitStr == <<"0", "1", "2", "3", "4", "5", "6", "7", "8", "9">>

\* cast(pl.Utf8) of an integer
RECURSIVE ToStr(_)
ToStr(n) == IF n < 10 THEN DigitStr[n + 1] ELSE ToStr(n \div 10) \o DigitStr[(n % 10) + 1]

\* cast(pl.Int64) of a string of digits
RECURSIVE ToInt(_)
ToInt(s) ==
    IF Len(s) = 0 THEN 0
    ELSE 10 * ToInt(SubSeq(s, 1, Len(s) - 1))
         + (CHOOSE d \in 0..9 : DigitStr[d + 1] = Ch(s, Len(s)))

\* df.columns of the table handed to lift_over, in order
desired_cols == <<"SNP", "CHR", "BP", "A2", "A1", "INFO">>

LORow(snp, chr, bp, a2, a1, info) ==
    [SNP |-> snp, CHR |-> chr, BP |-> bp, A2 |-> a2, A1 |-> a1, INFO |-> info]

\* the positional rows lift_over is run on; INFO is a passthrough column
LORows ==
    { LORow("1_100_A_G", "1", "100", "A", "G", "0.5"),
      LORow("X_7_C_T", "X", "7", "C", "T", "a,b"),
      LORow("2_30_G_A", "2", "30", "G", "A", "1.0") }

TempFiles == <<"to_be_lifted", "mapped", "unmapped">>

loIdle == <<cols, counts, shards, chrs, mapper_df, joins, reads, rgIdle>>

InitLO ==
    /\ pc = "lo_write"
    /\ df \in SeqsOf(LORows, 1, MaxRowsLO)
    /\ df0 = df
    /\ env \in [chain_file : BOOLEAN, lift_tool : BOOLEAN]
    /\ files = [f \in {"to_be_lifted", "mapped", "unmapped"} |-> Absent]
    /\ invoked = FALSE
    /\ err = Null /\ ret = <<>>
    /\ cols = {} /\ counts = NoCounts /\ shards = <<>> /\ chrs = <<>>
    /\ mapper_df = <<>> /\ joins = <<>> /\ reads = <<>>
    /\ cols0 = {} /\ InitAlone

\* lines 139-150: one BED line per record; the payload is every column,
\* comma-joined
bed_line(r) ==
    [BEDCHR |-> "chr" \o strip_chr_prefix(r.CHR),
     BEDBPminus1 |-> ToStr(ToInt(r.BP) - 1),
     BEDBP |-> r.BP,
     BEDAllCols |-> concat_str([i \in 1..Len(desired_cols) |-> r[desired_cols[i]]], ",")]

\* lines 137-158: write the table as to_be_lifted_*.bed
LO_Write ==
    /\ pc = "lo_write"
    /\ files' = [files EXCEPT !["to_be_lifted"] = File(MapRows(df, bed_line))]
    /\ pc' = "lo_check"
    /\ UNCHANGED <<df, df0, err, ret, env, invoked>>
    /\ UNCHANGED loIdle

\* lines 160-168: the two existence tests build an IOError and drop it (there
\* is no raise), and the path of the tool is not tested
LO_Check ==
    /\ pc = "lo_check"
    /\ pc' = "lo_run"
    /\ UNCHANGED <<df, df0, err, ret, env, invoked, files>>
    /\ UNCHANGED loIdle

\* the external tool on one line: the interval moves, the payload is copied
lifted(l) ==
    [l EXCEPT !.BEDBPminus1 = ToStr(ToInt(l.BEDBPminus1) + 10),
              !.BEDBP = ToStr(ToInt(l.BEDBP) + 10)]

\* the lines of t at the positions in S, in order
RECURSIVE Pick(_, _, _)
Pick(t, S, i) ==
    IF i > Len(t) THEN <<>>
    ELSE (IF i \in S THEN <<t[i]>> ELSE <<>>) \o Pick(t, S, i + 1)

\* lines 169-171: subprocess.run, exit status not looked at.  With the tool and
\* the chain file in place the tool maps some of the lines and writes both
\* outputs; without one of them the command fails and writes nothing.
LO_Run ==
    /\ pc = "lo_run"
    /\ invoked' = TRUE
    /\ IF env.chain_file /\ env.lift_tool
       THEN LET input == files["to_be_lifted"].lines
            IN \E S \in SUBSET (1..Len(input)) :
                files' = [files EXCEPT
                    !["mapped"] = File(MapRows(Pick(input, S, 1), lifted)),
                    !["unmapped"] = File(Pick(input, (1..Len(input)) \ S, 1))]
       ELSE files' = files
    /\ pc' = "lo_read"
    /\ UNCHANGED <<df, df0, err, ret, env>>
    /\ UNCHANGED loIdle

\* str.split_exact(",", n) followed by struct.field(i): the i-th piece, null
\* when there are fewer pieces; pieces past the n-th are dropped
split_field(s, i) == split_get(s, ",", i)

\* lines 177-206: the payload is split back into the columns by position,
\* CHR and BP come from the lifted interval and a positional SNP is rebuilt
parse_line(l) ==
    LET f == [c \in 1..Len(desired_cols) |-> split_field(l.BEDAllCols, c - 1)]
        r == [c \in {desired_cols[i] : i \in 1..Len(desired_cols)} |->
                f[CHOOSE i \in 1..Len(desired_cols) : desired_cols[i] = c]]
        chr == strip_chr_prefix(l.BEDCHR)
    IN [r EXCEPT !.CHR = chr,
                 !.BP = l.BEDBP,
                 !.SNP = IF contains_neale(r.SNP)
                         THEN to_uppercase(concat_str(<<chr, l.BEDBP, r.A2, r.A1>>, "_"))
                         ELSE r.SNP]

\* lines 175-206: pl.read_csv raises when the file is missing and when it has
\* no data
LO_Read ==
    /\ pc = "lo_read"
    /\ IF ~files["mapped"].exists
       THEN pc' = "failed" /\ err' = "FileNotFoundError" /\ df' = df
       ELSE IF files["mapped"].lines = <<>>
       THEN pc' = "failed" /\ err' = "NoDataError" /\ df' = df
       ELSE /\ pc' = "lo_remove" /\ err' = err
            /\ df' = MapRows(files["mapped"].lines, parse_line)
    /\ UNCHANGED <<df0, ret, env, invoked, files>>
    /\ UNCHANGED loIdle

\* lines 209-213: os.remove of the three files in turn, then return
LO_Remove ==
    /\ pc = "lo_remove"
    /\ LET missing == {i \in 1..Len(TempFiles) : ~files[TempFiles[i]].exists}
           stop == IF missing = {} THEN Len(TempFiles) + 1
                   ELSE CHOOSE i \in missing : \A j \in missing : i <= j
       IN /\ files' = [f \in DOMAIN files |->
                          IF \E i \in 1..(stop - 1) : TempFiles[i] = f THEN Absent ELSE files[f]]
          /\ IF missing = {}
             THEN pc' = "done" /\ ret' = df /\ err' = err
             ELSE pc' = "failed" /\ ret' = ret /\ err' = "FileNotFoundError"
    /\ UNCHANGED <<df, df0, env, invoked>>
    /\ UNCHANGED loIdle

NextLO == LO_Write \/ LO_Check \/ LO_Run \/ LO_Read \/ LO_Remove

SpecLO == InitLO /\ [][NextLO]_vars

LOEnded == pc \in {"done", "failed"}

\* C4: with the tool path or the chain file missing, lift_over fails before
\* it invokes the external tool and returns no table.
C4_MissingPathFailsEarly ==
    (~env.chain_file \/ ~env.lift_tool) => (invoked = FALSE /\ pc # "done")

\* C5: once the temporary interval files were created, none of them exists
\* after lift_over has ended, whichever way it ended.
C5_TempFilesRemoved ==
    LOEnded => \A f \in DOMAIN files : ~files[f].exists

\* C6: an empty mapped-output file makes lift_over return a table of zero
\* records, without an error.
C6_EmptyMappedIsEmptyTable ==
    [][(pc = "lo_read" /\ files["mapped"].exists /\ files["mapped"].lines = <<>>)
          => (pc' # "failed" /\ err' = Null /\ df' = <<>>)]_vars

\* the number of comma-separated fields of a payload
FieldCount(s) == IF IsNull(s) THEN 0 ELSE Len(split(s, ","))

\* C7: a mapped-output line whose payload does not split into exactly as
\* many fields as there are columns makes lift_over fail; no record is made
\* of it.
C7_FieldCountChecked ==
    pc = "lo_remove" =>
        \A i \in 1..Len(files["mapped"].lines) :
            FieldCount(files["mapped"].lines[i].BEDAllCols) = Len(desired_cols)

(***************************************************************************)
(* The lookup shards (dbSNP_156.chr*.lookup.parquet): rows of RSID and ID. *)
(***************************************************************************)
Pair(rsid, id) == [RSID |-> rsid, ID |-> id]

\* the shards of at most MaxShardRows rows taken, with repetition, from the
\* rows of samples.  Both resolvers begin with lookup.unique(), which makes
\* the order of the rows of a shard immaterial, so one order stands for all.
ShardsOf(samples) ==
    UNION {{[i \in 1..n |-> samples[f[i]]] :
               f \in {g \in [1..n -> 1..Len(samples)] :
                         \A i \in 1..n : \A j \in i..n : g[i] <= g[j]}} :
           n \in 0..MaxShardRows}

\* lookup.unique(): the distinct rows
unique(rows) == {rows[i] : i \in 1..Len(rows)}

\* unique(subset = col, keep = "first"): one row per value of col survives; the
\* variant of unique_keep_none that resolves an ambiguous key
unique_keep_any(rows, col) ==
    {r \in rows : r = CHOOSE q \in rows : q[col] = r[col]}

\* .unique(subset = col, keep = "none"): the rows whose value of col is in no
\* other row
unique_keep_none(rows, col) ==
    {r \in rows : \A q \in rows : q[col] = r[col] => q = r}

\* the left join of one key against a lookup that is unique on col: the
\* value of the other column in the matching row, null when no row matches
join_value(lookup, col, key, other) ==
    IF ~IsNull(key) /\ \E l \in lookup : l[col] = key
    THEN (CHOOSE l \in lookup : l[col] = key)[other]
    ELSE Null

(***************************************************************************)
(* lift_rsids (lines 216-302).                                             *)
(***************************************************************************)
LRRec(snp, chr, bp) == [SNP |-> snp, CHR |-> chr, BP |-> bp, ID |-> Null]

\* the rsID records lift_rsids is run on, with and without coordinates
LRRows ==
    { LRRec("rs1", Null, Null), LRRec("rs2", "5", "9"), LRRec("rs3", Null, Null) }

\* the chromosomes that have a shard, and the rows a shard may hold
LRChroms == {"1", "2"}

LRShardRows(c) ==
    IF c = "1"
    THEN << Pair("rs1", "chr1_100_A_G"), Pair("rs1", "chr1_200_A_G"),
            Pair("rs2", "chr1_300_C_T") >>
    ELSE << Pair("rs1", "chr2_77_G_A"), Pair("rs2", "chr2_50_C_T") >>

\* the orders in which os.listdir may list the shards of S
Orders(S) == {o \in [1..Cardinality(S) -> S] : \A c \in S : \E i \in DOMAIN o : o[i] = c}

lrIdle == <<cols, counts, files, env, invoked, mapper_df, joins, rgIdle>>

InitLR ==
    /\ pc = "lr_start"
    /\ df \in SeqsOf(LRRows, 1, MaxRowsLR)
    /\ df0 = df
    /\ \E s1 \in ShardsOf(LRShardRows("1")), s2 \in ShardsOf(LRShardRows("2")) :
           shards = [c \in LRChroms |-> IF c = "1" THEN s1 ELSE s2]
    /\ chrs \in Orders(LRChroms)
    /\ reads = <<>>
    /\ err = Null /\ ret = <<>>
    /\ cols = {} /\ counts = NoCounts /\ files = <<>> /\ env = <<>>
    /\ invoked = FALSE /\ mapper_df = <<>> /\ joins = <<>>
    /\ cols0 = {} /\ InitAlone

\* lines 231-248: list the shards, add a null ID column
LR_Start ==
    /\ pc = "lr_start"
    /\ df' = MapRows(df, LAMBDA r : [r EXCEPT !.ID = Null])
    /\ pc' = "lr_loop"
    /\ UNCHANGED <<df0, err, ret, shards, chrs, reads>>
    /\ UNCHANGED lrIdle

\* the variant of coalesce_id in which the shard read last wins
coalesce_id_last(old, new) == IF ~IsNull(new) THEN new ELSE old

\* lines 261-266: ID keeps its value, and takes ID_right when it is null
coalesce_id(old, new) == IF ~IsNull(old) THEN old ELSE new

\* lines 258-266: read the shard, drop the rsIDs that are not unique, join
lr_join(t, shard) ==
    LET lookup == unique_keep_none(unique(shard), "RSID")
    IN MapRows(t, LAMBDA r :
           [r EXCEPT !.ID = coalesce_id(r.ID, join_value(lookup, "RSID", r.SNP, "ID"))])

\* lines 251-266: one turn of the loop over accepted_chrs
LR_Visit ==
    /\ pc = "lr_loop"
    /\ chrs # <<>>
    /\ IF \A i \in 1..Len(df) : ~IsNull(df[i].ID)
       THEN UNCHANGED <<df, reads>>
       ELSE /\ df' = lr_join(df, shards[Head(chrs)])
            /\ reads' = Append(reads, Head(chrs))
    /\ chrs' = Tail(chrs)
    /\ UNCHANGED <<pc, df0, err, ret, shards>>
    /\ UNCHANGED lrIdle

\* lines 287-298: CHR and BP of a resolved record come from its ID
update_chr_bp(r) ==
    IF ~IsNull(r.ID)
    THEN [r EXCEPT !.CHR = replace_first(split_get(r.ID, "_", 0), "chr", ""),
                   !.BP = split_get(r.ID, "_", 1)]
    ELSE r

\* lines 287-302: update CHR and BP, drop the ID column, return
LR_Finish ==
    /\ pc = "lr_loop"
    /\ chrs = <<>>
    /\ df' = MapRows(df, LAMBDA r : [update_chr_bp(r) EXCEPT !.ID = Null])
    /\ ret' = df'
    /\ pc' = "done"
    /\ UNCHANGED <<df0, err, shards, chrs, reads>>
    /\ UNCHANGED lrIdle

NextLR == LR_Start \/ LR_Visit \/ LR_Finish

SpecLR == InitLR /\ [][NextLR]_vars

\* the distinct counterparts of a key in the rows of a shard, as stored
Counterparts(shard, col, key, other) ==
    {shard[i][other] : i \in {j \in 1..Len(shard) : shard[j][col] = key}}

\* the one counterpart of a key in a shard, null when the key has none or
\* more than one
Match(shard, col, key, other) ==
    LET v == Counterparts(shard, col, key, other)
    IN IF ~IsNull(key) /\ Cardinality(v) = 1 THEN CHOOSE x \in v : TRUE ELSE Null

\* some shard has exactly one coordinate for the rsID of record i
LRInSomeShard(i) ==
    \E c \in DOMAIN shards : ~IsNull(Match(shards[c], "RSID", df0[i].SNP, "ID"))

\* C10: in lift_rsids a record that a shard has resolved is not changed by a
\* shard visited later, the number of records never changes, and a record
\* that no shard matches returns with the CHR and BP it came with.
C10_FirstMatchWins ==
    /\ [][pc = "lr_loop" =>
            /\ Len(df') = Len(df)
            /\ \A i \in 1..Len(df) : ~IsNull(df[i].ID) =>
                   IF pc' = "lr_loop"
                   THEN df'[i].ID = df[i].ID
                   ELSE /\ df'[i].BP = split_get(df[i].ID, "_", 1)
                        /\ "chr" \o df'[i].CHR = split_get(df[i].ID, "_", 0)]_vars
    /\ [](pc = "done" =>
            /\ Len(ret) = Len(df0)
            /\ \A i \in 1..Len(ret) :
                   /\ ret[i].SNP = df0[i].SNP
                   /\ ~LRInSomeShard(i) => (ret[i].CHR = df0[i].CHR /\ ret[i].BP = df0[i].BP))

\* a record was resolved by the shard read first although the shard read
\* second has another coordinate for its rsID
C10_Witness ==
    /\ pc = "done"
    /\ Len(reads) = 2
    /\ \E i \in 1..Len(ret) :
          LET first == Counterparts(shards[reads[1]], "RSID", df0[i].SNP, "ID")
              second == Counterparts(shards[reads[2]], "RSID", df0[i].SNP, "ID")
          IN /\ Cardinality(first) = 1 /\ Cardinality(second) = 1
             /\ first # second
             /\ \E id \in first : ret[i].BP = split_get(id, "_", 1)
    /\ \E i \in 1..Len(ret) : ~LRInSomeShard(i) /\ IsNull(ret[i].CHR)

(***************************************************************************)
(* neale_wrangler (lines 305-452).                                         *)
(***************************************************************************)
NWRec(snp, chr, bp, a2, a1) ==
    [SNP |-> snp, CHR |-> chr, BP |-> bp, A2 |-> a2, A1 |-> a1,
     RC_SNP |-> Null, SNP_SWITCH |-> Null, RC_SNP_SWITCH |-> Null]

\* the positional records neale_wrangler is run on: the identifier is
\* CHR_BP_A2_A1, as ensure_four and lift_over build it
NWRows ==
    { NWRec("8_60009_T_G", "8", "60009", "T", "G"),
      NWRec("9_5_A_C", "9", "5", "A", "C"),
      NWRec("X_7_C_T", "X", "7", "C", "T") }

\* the chromosomes that have a shard, and the rows a shard may hold: for the
\* record 8_60009_T_G its own key (with two rsIDs), the swapped key, the
\* reverse complement of both, and the swapped key in lower case
NWChroms == {"8", "X"}

NWShardRows(c) ==
    IF c = "8"
    THEN << Pair("rs1", "chr8_60009_T_G"), Pair("rs2", "chr8_60009_T_G"),
            Pair("rs999", "chr8_60009_G_T"), Pair("rs3", "chr8_60009_A_C"),
            Pair("rs4", "chr8_60009_C_A"), Pair("rs5", "chr8_60009_g_t") >>
    ELSE << Pair("rs7", "chrX_7_C_T") >>

\* the chromosomes of the records of the model as Series.sort() orders them
NWChromOrder == <<"1", "8", "9", "X">>

nwIdle == <<cols, counts, files, env, invoked, rgIdle>>

InitNW ==
    /\ pc = "nw_keys"
    /\ df \in SeqsOf(NWRows, 1, MaxRowsNW)
    /\ df0 = df
    /\ \E s8 \in ShardsOf(NWShardRows("8")), sX \in ShardsOf(NWShardRows("X")) :
           shards = [c \in NWChroms |-> IF c = "8" THEN s8 ELSE sX]
    /\ chrs = <<>> /\ mapper_df = <<>> /\ joins = <<>> /\ reads = <<>>
    /\ err = Null /\ ret = <<>>
    /\ cols = {} /\ counts = NoCounts /\ files = <<>> /\ env = <<>> /\ invoked = FALSE
    /\ cols0 = {} /\ InitAlone

\* lines 326-330 and 356-360: lower-case, then a -> T, g -> C, c -> G, t -> A
reverse_complement(s) ==
    replace_all(replace_all(replace_all(replace_all(to_lowercase(s),
        {"a"}, "T"), {"g"}, "C"), {"c"}, "G"), {"t"}, "A")

prefix_chr(s) == IF IsNull(s) THEN Null ELSE "chr" \o s

\* lines 321-370: the four candidate keys of a record; SNP itself gets the
\* "chr" prefix
nw_keys(r) ==
    LET rc_snp == IF contains_neale(r.SNP) THEN prefix_chr(reverse_complement(r.SNP)) ELSE r.SNP
        snp == IF contains_neale(r.SNP) THEN prefix_chr(r.SNP) ELSE r.SNP
        switch == IF contains_neale(snp)
                  THEN to_lowercase(concat_str(<<r.CHR, r.BP, r.A1, r.A2>>, "_"))
                  ELSE snp
        rc_switch == IF contains_neale(switch) THEN prefix_chr(reverse_complement(switch)) ELSE switch
        snp_switch == IF contains_neale(switch) THEN prefix_chr(switch) ELSE switch
    IN [r EXCEPT !.SNP = snp, !.RC_SNP = rc_snp, !.SNP_SWITCH = snp_switch,
                 !.RC_SNP_SWITCH = rc_switch]

\* lines 373-379: the chromosomes of df that have a shard, sorted
unique_chrs(t, accepted) ==
    LET keep(c) == c \in accepted /\ \E i \in 1..Len(t) : t[i].CHR = c
    IN SelectSeq(NWChromOrder, keep)

\* lines 321-382
NW_Keys ==
    /\ pc = "nw_keys"
    /\ df' = MapRows(df, nw_keys)
    /\ chrs' = unique_chrs(df', DOMAIN shards)
    /\ pc' = "nw_loop"
    /\ UNCHANGED <<df0, err, ret, shards, mapper_df, joins, reads>>
    /\ UNCHANGED nwIdle

KeyCols == <<"SNP", "SNP_SWITCH", "RC_SNP", "RC_SNP_SWITCH">>

\* lines 392-430: one join; a value is dropped when the rows that share the
\* key have more than one value
join_rsid(sub, lookup, keycol) ==
    LET raw == [i \in 1..Len(sub) |-> join_value(lookup, "ID", sub[i][keycol], "RSID")]
        group(i) == {raw[k] : k \in {j \in 1..Len(sub) : sub[j][keycol] = sub[i][keycol]}}
    IN [i \in 1..Len(sub) |-> IF Cardinality(group(i)) > 1 THEN Null ELSE raw[i]]

\* the variant of coalesce_rsid in which the reverse complement is asked first
coalesce_rsid_rc_first(snp, switch, rc, rc_switch, default) ==
    IF ~IsNull(rc) THEN rc
    ELSE IF ~IsNull(snp) THEN snp
    ELSE IF ~IsNull(switch) THEN switch
    ELSE IF ~IsNull(rc_switch) THEN rc_switch
    ELSE default

\* lines 433-444: the first join that found an rsID, else SNP
coalesce_rsid(snp, switch, rc, rc_switch, default) ==
    IF ~IsNull(snp) THEN snp
    ELSE IF ~IsNull(switch) THEN switch
    ELSE IF ~IsNull(rc) THEN rc
    ELSE IF ~IsNull(rc_switch) THEN rc_switch
    ELSE default

\* lines 389-430: the records of one chromosome joined four times against
\* its shard
nw_joins(t, chromosome, shard) ==
    LET sub == SelectSeq(t, LAMBDA r : r.CHR = chromosome)
        lookup == unique_keep_none(unique(shard), "ID")
    IN [i \in 1..Len(sub) |->
           [row |-> sub[i],
            SNP |-> join_rsid(sub, lookup, "SNP")[i],
            SNP_SWITCH |-> join_rsid(sub, lookup, "SNP_SWITCH")[i],
            RC_SNP |-> join_rsid(sub, lookup, "RC_SNP")[i],
            RC_SNP_SWITCH |-> join_rsid(sub, lookup, "RC_SNP_SWITCH")[i]]]

\* lines 385-447: one turn of the loop over unique_chrs
NW_Visit ==
    /\ pc = "nw_loop"
    /\ chrs # <<>>
    /\ joins' = nw_joins(df, Head(chrs), shards[Head(chrs)])
    /\ reads' = Append(reads, Head(chrs))
    /\ mapper_df' = mapper_df \o
          MapRows(joins', LAMBDA j :
              [SNP |-> j.row.SNP,
               RSID_SNP |-> coalesce_rsid(j.SNP, j.SNP_SWITCH, j.RC_SNP, j.RC_SNP_SWITCH,
                                          j.row.SNP)])
    /\ chrs' = Tail(chrs)
    /\ UNCHANGED <<pc, df, df0, err, ret, shards>>
    /\ UNCHANGED nwIdle

\* line 449-450: dict(zip(...)) keeps the last row of a key; replace leaves
\* a value that is no key as it is
mapper_replace(m, snp) ==
    LET hits == {k \in 1..Len(m) : m[k].SNP = snp}
    IN IF hits = {} THEN snp
       ELSE m[CHOOSE k \in hits : \A j \in hits : j <= k].RSID_SNP

\* lines 449-452
NW_Finish ==
    /\ pc = "nw_loop"
    /\ chrs = <<>>
    /\ df' = MapRows(df, LAMBDA r :
                [r EXCEPT !.SNP = mapper_replace(mapper_df, r.SNP),
                          !.RC_SNP = Null, !.SNP_SWITCH = Null, !.RC_SNP_SWITCH = Null])
    /\ ret' = df'
    /\ pc' = "done"
    /\ UNCHANGED <<df0, err, shards, chrs, mapper_df, joins, reads>>
    /\ UNCHANGED nwIdle

NextNW == NW_Keys \/ NW_Visit \/ NW_Finish

SpecNW == InitNW /\ [][NextNW]_vars

\* the two resolvers together
SpecRes == (InitLR \/ InitNW) /\ [][NextLR \/ NextNW]_vars

(***************************************************************************)
(* reformat_gwas (lines 495-574): the calls of ensure_four, lift_rsids,    *)
(* lift_over and neale_wrangler run the actions above; stack names the     *)
(* call that is running.  The table has the standard column names (the     *)
(* renaming of lines 515-518 is done) and one more column, INFO.           *)
(***************************************************************************)
MaxRowsRG == 2

\* the records reformat_gwas is run on: an rsID with coordinates, the same
\* variant under its positional identifier, an rsID without coordinates
RGRows ==
    { LORow("rs1", "1", "100", "A", "G", "0.5"),
      LORow("1:100:A:G", "1", "100", "A", "G", "0.5"),
      LORow("rs3", Null, Null, "C", "T", "0.1") }

RGCols == {"SNP", "CHR", "BP", "A2", "A1", "INFO"}

\* the one shard of the lookup directory and the rows it may hold: rs1 at the
\* position of the input and at the position lift_over moves it to, and rs3
RGChroms == {"1"}

RGShardRows ==
    << Pair("rs1", "chr1_100_A_G"), Pair("rs1", "chr1_110_A_G"),
       Pair("rs3", "chr1_300_C_T") >>

Builds == {"hg19", "hg38"}

\* an entry of calls
Call(fn, t) == [fn |-> fn, event |-> "call", table |-> t]
Return(fn, t) == [fn |-> fn, event |-> "return", table |-> t]

\* with_columns(pl.lit(None).alias(c)) for each c of names, and drop(names)
AddCols(t, names) ==
    MapRows(t, LAMBDA r : [c \in DOMAIN r \cup names |-> IF c \in DOMAIN r THEN r[c] ELSE Null])
DropCols(t, names) ==
    MapRows(t, LAMBDA r : [c \in DOMAIN r \ names |-> r[c]])

LRCols == {"ID"}
NWCols == {"RC_SNP", "SNP_SWITCH", "RC_SNP_SWITCH"}

\* line 519: reformat_gwas begins with the call of ensure_four
InitRG ==
    /\ pc = "ef_check"
    /\ stack = "ensure_four"
    /\ cols = RGCols /\ cols0 = cols
    /\ df \in SeqsOf(RGRows, 1, MaxRowsRG)
    /\ df0 = df
    /\ calls = <<Call("ensure_four", df)>>
    /\ initial_build \in Builds
    /\ env \in [chain_file : BOOLEAN, lift_tool : BOOLEAN]
    /\ files = [f \in {"to_be_lifted", "mapped", "unmapped"} |-> Absent]
    /\ \E s \in ShardsOf(RGShardRows) : shards = [c \in RGChroms |-> s]
    /\ rsid_df = <<>> /\ rsid_null_df = <<>> /\ neale_df = <<>>
    /\ err = Null /\ ret = <<>> /\ counts = NoCounts /\ invoked = FALSE
    /\ chrs = <<>> /\ mapper_df = <<>> /\ joins = <<>> /\ reads = <<>>

rgRest == <<cols, cols0, counts, files, env, invoked, shards, mapper_df, joins,
            reads, initial_build>>

\* lines 523-535: the three partitions of the table ensure_four returned
is_rsid_complete(r) == contains_rsid(r.SNP) /\ ~(IsNull(r.CHR) \/ IsNull(r.BP))
is_rsid_null(r) == contains_rsid(r.SNP) /\ (IsNull(r.CHR) \/ IsNull(r.BP))
is_neale(r) == contains_neale(r.SNP)

RG_Partition ==
    /\ pc = "done" /\ stack = "ensure_four"
    /\ rsid_df' = SelectSeq(ret, is_rsid_complete)
    /\ rsid_null_df' = SelectSeq(ret, is_rsid_null)
    /\ neale_df' = SelectSeq(ret, is_neale)
    /\ calls' = Append(calls, Return("ensure_four", ret))
    /\ pc' = "rg_lift_rsids_null" /\ stack' = "reformat_gwas"
    /\ UNCHANGED <<df, df0, err, ret, chrs>>
    /\ UNCHANGED rgRest

\* the entry into lift_rsids with table t
EnterLiftRsids(t) ==
    /\ pc' = "lr_start"
    /\ df' = AddCols(t, LRCols) /\ df0' = df'
    /\ chrs' \in Orders(DOMAIN shards)
    /\ calls' = Append(calls, Call("lift_rsids", t))

\* lines 550-551: lift_rsids on the rsID records without coordinates
RG_CallLiftRsidsNull ==
    /\ pc = "rg_lift_rsids_null"
    /\ IF rsid_null_df # <<>>
       THEN EnterLiftRsids(rsid_null_df) /\ stack' = "lift_rsids_null"
       ELSE pc' = "rg_lift_over" /\ UNCHANGED <<df, df0, chrs, calls, stack>>
    /\ UNCHANGED <<err, ret, rsid_df, rsid_null_df, neale_df>>
    /\ UNCHANGED rgRest

RG_ReturnLiftRsidsNull ==
    /\ pc = "done" /\ stack = "lift_rsids_null"
    /\ rsid_null_df' = DropCols(ret, LRCols)
    /\ calls' = Append(calls, Return("lift_rsids", rsid_null_df'))
    /\ pc' = "rg_lift_over" /\ stack' = "reformat_gwas"
    /\ UNCHANGED <<df, df0, err, ret, chrs, rsid_df, neale_df>>
    /\ UNCHANGED rgRest

\* the variant of needs_lift_over that lifts a table of any build
needs_lift_over_any_build(build, t) == t # <<>>

\* lines 553 and 555: lift_over is for a table in hg19 that has records
needs_lift_over(build, t) == build = "hg19" /\ t # <<>>

\* lines 553-556: lift_over on the positional records
RG_CallLiftOver ==
    /\ pc = "rg_lift_over"
    /\ IF needs_lift_over(initial_build, neale_df)
       THEN /\ pc' = "lo_write" /\ stack' = "lift_over"
            /\ df' = neale_df /\ df0' = neale_df
            /\ calls' = Append(calls, Call("lift_over", neale_df))
       ELSE pc' = "rg_lift_rsids" /\ UNCHANGED <<df, df0, calls, stack>>
    /\ UNCHANGED <<err, ret, chrs, rsid_df, rsid_null_df, neale_df>>
    /\ UNCHANGED rgRest

RG_ReturnLiftOver ==
    /\ pc = "done" /\ stack = "lift_over"
    /\ neale_df' = ret
    /\ calls' = Append(calls, Return("lift_over", ret))
    /\ pc' = "rg_lift_rsids" /\ stack' = "reformat_gwas"
    /\ UNCHANGED <<df, df0, err, ret, chrs, rsid_df, rsid_null_df>>
    /\ UNCHANGED rgRest

\* lines 553 and 558-559: in hg19, lift_rsids on the rsID records that have
\* coordinates
RG_CallLiftRsids ==
    /\ pc = "rg_lift_rsids"
    /\ IF initial_build = "hg19" /\ rsid_df # <<>>
       THEN EnterLiftRsids(rsid_df) /\ stack' = "lift_rsids"
       ELSE pc' = "rg_neale_wrangler" /\ UNCHANGED <<df, df0, chrs, calls, stack>>
    /\ UNCHANGED <<err, ret, rsid_df, rsid_null_df, neale_df>>
    /\ UNCHANGED rgRest

RG_ReturnLiftRsids ==
    /\ pc = "done" /\ stack = "lift_rsids"
    /\ rsid_df' = DropCols(ret, LRCols)
    /\ calls' = Append(calls, Return("lift_rsids", rsid_df'))
    /\ pc' = "rg_neale_wrangler" /\ stack' = "reformat_gwas"
    /\ UNCHANGED <<df, df0, err, ret, chrs, rsid_null_df, neale_df>>
    /\ UNCHANGED rgRest

\* lines 563-564: neale_wrangler on the positional records
RG_CallNealeWrangler ==
    /\ pc = "rg_neale_wrangler"
    /\ IF neale_df # <<>>
       THEN /\ pc' = "nw_keys" /\ stack' = "neale_wrangler"
            /\ df' = AddCols(neale_df, NWCols) /\ df0' = df'
            /\ calls' = Append(calls, Call("neale_wrangler", neale_df))
       ELSE pc' = "rg_concat" /\ UNCHANGED <<df, df0, calls, stack>>
    /\ UNCHANGED <<err, ret, chrs, rsid_df, rsid_null_df, neale_df>>
    /\ UNCHANGED rgRest

RG_ReturnNealeWrangler ==
    /\ pc = "done" /\ stack = "neale_wrangler"
    /\ neale_df' = DropCols(ret, NWCols)
    /\ calls' = Append(calls, Return("neale_wrangler", neale_df'))
    /\ pc' = "rg_concat" /\ stack' = "reformat_gwas"
    /\ UNCHANGED <<df, df0, err, ret, chrs, rsid_df, rsid_null_df>>
    /\ UNCHANGED rgRest

\* the variant of not_in_neale that keeps every record
not_in_neale_keep_all(rsid, neale) == rsid

\* line 573: the records of rsid_df whose SNP is the SNP of no record of
\* neale_df
not_in_neale(rsid, neale) ==
    SelectSeq(rsid, LAMBDA r : \A j \in 1..Len(neale) : neale[j].SNP # r.SNP)

\* lines 567-574: the partitions are put together again (every column of
\* the model is a string column, the casts of lines 567-572 change nothing);
\* rsid_df keeps the value it had before line 573
RG_Concat ==
    /\ pc = "rg_concat"
    /\ df' = not_in_neale(rsid_df, neale_df) \o rsid_null_df \o neale_df
    /\ ret' = df'
    /\ pc' = "rg_done"
    /\ UNCHANGED <<df0, err, chrs, rsid_df, rsid_null_df, neale_df, calls, stack>>
    /\ UNCHANGED rgRest

NextRG ==
    \/ RG_Partition
    \/ RG_CallLiftRsidsNull \/ RG_ReturnLiftRsidsNull
    \/ RG_CallLiftOver \/ RG_ReturnLiftOver
    \/ RG_CallLiftRsids \/ RG_ReturnLiftRsids
    \/ RG_CallNealeWrangler \/ RG_ReturnNealeWrangler
    \/ RG_Concat
    \/ NextEF \/ NextLO \/ NextLR \/ NextNW

SpecRG == InitRG /\ [][NextRG]_vars

Init == InitEF \/ InitLO \/ InitLR \/ InitNW \/ InitRG

Next == NextRG

Spec == Init /\ [][Next]_vars

\* the key of record r with allele_high and allele_low exchanged
SwappedKey(r) == "chr" \o JoinStr(<<r.CHR, r.BP, r.A1, r.A2>>, "_")

\* C2: a positional record whose own key is not in the shard of its
\* chromosome and whose allele-swapped key is there with exactly one rsID
\* leaves neale_wrangler with that rsID as its identifier.
C2_SwitchedKeyResolves ==
    pc = "done" =>
        \A i \in 1..Len(df0) :
            LET r == df0[i]
            IN (/\ r.CHR \in DOMAIN shards
                /\ Counterparts(shards[r.CHR], "ID", "chr" \o r.SNP, "RSID") = {}
                /\ ~IsNull(Match(shards[r.CHR], "ID", SwappedKey(r), "RSID")))
               => ret[i].SNP = Match(shards[r.CHR], "ID", SwappedKey(r), "RSID")

\* none of the four candidate keys of record r is a key of the shard of its
\* chromosome, or there is no such shard
NoCandidateMatches(r) ==
    \/ r.CHR \notin DOMAIN shards
    \/ \A k \in 1..Len(KeyCols) :
           Counterparts(shards[r.CHR], "ID", nw_keys(r)[KeyCols[k]], "RSID") = {}

\* C3: a positional record none of whose four candidate keys is in the
\* shard of its chromosome, or whose chromosome has no shard, leaves
\* neale_wrangler with the identifier it came with.
C3_UnmatchedUnchanged ==
    pc = "done" =>
        \A i \in 1..Len(df0) : NoCandidateMatches(df0[i]) => ret[i].SNP = df0[i].SNP

\* what the shard of record r answers for its four candidate keys, in the
\* order SNP, SNP_SWITCH, RC_SNP, RC_SNP_SWITCH
CandidateMatches(r) ==
    LET keys == nw_keys(r)
    IN [k \in 1..Len(KeyCols) |-> Match(shards[r.CHR], "ID", keys[KeyCols[k]], "RSID")]

\* C8: the identifier a record leaves neale_wrangler with is the rsID of the
\* first of its candidate keys SNP, SNP_SWITCH, RC_SNP, RC_SNP_SWITCH that
\* has an unambiguous match in the shard.
C8_FirstCandidateWins ==
    pc = "done" =>
        \A i \in 1..Len(df0) :
            df0[i].CHR \in DOMAIN shards =>
                LET m == CandidateMatches(df0[i])
                IN \A k \in 1..Len(KeyCols) :
                       (~IsNull(m[k]) /\ \A h \in 1..(k - 1) : IsNull(m[h]))
                           => ret[i].SNP = m[k]

\* RC_SNP and RC_SNP_SWITCH both match, with different rsIDs, SNP and
\* SNP_SWITCH do not, and the record has the rsID of RC_SNP
C8_Witness ==
    /\ pc = "done"
    /\ \E i \in 1..Len(df0) :
          /\ df0[i].CHR \in DOMAIN shards
          /\ LET m == CandidateMatches(df0[i])
             IN /\ IsNull(m[1]) /\ IsNull(m[2])
                /\ ~IsNull(m[3]) /\ ~IsNull(m[4]) /\ m[3] # m[4]
                /\ ret[i].SNP = m[3]

\* C9: in both resolvers a key with two or more distinct counterparts in the
\* shard that is read finds no match, and a key whose rows all carry the same
\* counterpart finds that counterpart.
C9_AmbiguousKeyUnresolved ==
    /\ [][(pc = "lr_loop" /\ reads' # reads) =>
            \A i \in 1..Len(df) :
                IsNull(df[i].ID) =>
                    LET v == Counterparts(shards[Head(chrs)], "RSID", df[i].SNP, "ID")
                    IN /\ Cardinality(v) >= 2 => IsNull(df'[i].ID)
                       /\ Cardinality(v) = 1 => df'[i].ID \in v]_vars
    /\ [](pc = "nw_loop" =>
            \A n \in 1..Len(joins) : \A k \in 1..Len(KeyCols) :
                LET v == Counterparts(shards[reads[Len(reads)]], "ID",
                                      joins[n].row[KeyCols[k]], "RSID")
                IN /\ Cardinality(v) >= 2 => IsNull(joins[n][KeyCols[k]])
                   /\ Cardinality(v) = 1 => joins[n][KeyCols[k]] \in v)

\* the shard of chromosome 8 has two rsIDs for the key of a record, which
\* stayed unresolved, and the shard of X has the same row twice, which
\* resolved the record of X
C9_Witness ==
    /\ pc = "nw_loop"
    /\ reads = <<"8", "X">>
    /\ Cardinality(Counterparts(shards["8"], "ID", mapper_df[1].SNP, "RSID")) = 2
    /\ mapper_df[1].RSID_SNP = mapper_df[1].SNP
    /\ Len(shards["X"]) = 2 /\ shards["X"][1] = shards["X"][2]
    /\ Len(joins) >= 1 /\ ~IsNull(joins[1].SNP)

\* C15: whenever lift_rsids or neale_wrangler reads the shard of a chromosome,
\* some record that is not yet resolved has that chromosome in CHR (an rsID
\* record without a chromosome is taken to refer to every chromosome).
C15_ShardReadOnlyWhenReferenced ==
    [][reads' # reads =>
          \E i \in 1..Len(df) :
              /\ \/ df[i].CHR = reads'[Len(reads')]
                 \/ pc = "lr_loop" /\ IsNull(df[i].CHR)
              /\ pc = "lr_loop" => IsNull(df[i].ID)]_vars

\* the number of records of t with identifier snp
CountSnp(t, snp) == Cardinality({i \in 1..Len(t) : t[i].SNP = snp})

\* record j of neale_df has been resolved to the rsID of a record of rsid_df
ResolvedToDuplicate(j) ==
    /\ contains_rsid(neale_df[j].SNP)
    /\ \E i \in 1..Len(rsid_df) : rsid_df[i].SNP = neale_df[j].SNP

\* C13: when reformat_gwas has put the partitions together, a positional
\* record that was resolved to the rsID of a record of rsid_df is in the
\* table, and the only records with that rsID are those of neale_df and of
\* rsid_null_df: the record of rsid_df is not in the table.
C13_PositionalWins ==
    pc = "rg_done" =>
        /\ Len(ret) >= Len(rsid_null_df) + Len(neale_df)
        /\ SubSeq(ret, Len(ret) - Len(neale_df) + 1, Len(ret)) = neale_df
        /\ \A j \in 1..Len(neale_df) : ResolvedToDuplicate(j) =>
               CountSnp(ret, neale_df[j].SNP) =
                   CountSnp(neale_df, neale_df[j].SNP) + CountSnp(rsid_null_df, neale_df[j].SNP)

\* the table was put together with a resolved positional record whose rsID
\* a record of rsid_df has too
C13_Witness ==
    /\ pc = "rg_done"
    /\ \E j \in 1..Len(neale_df) : ResolvedToDuplicate(j)

\* record r has the coordinates the tool gives to a record of table t
LiftedFrom(r, t) ==
    \E i \in 1..Len(t) :
        /\ ~IsNull(r.BP) /\ r.CHR = t[i].CHR /\ r.BP = ToStr(ToInt(t[i].BP) + 10)
        /\ r.A2 = t[i].A2 /\ r.A1 = t[i].A1

\* entry k of calls is the call of neale_wrangler
IsNealeCall(k) == calls[k].fn = "neale_wrangler" /\ calls[k].event = "call"

\* C14: lift_over runs only on a non-empty positional partition of an hg19
\* table; it is never called after neale_wrangler; and in an hg19 run the
\* table neale_wrangler is called with is the table a finished lift_over
\* returned, every record of it with lifted coordinates.
C14_LiftBeforeResolve ==
    /\ stack = "lift_over" =>
           initial_build = "hg19" /\ df0 # <<>> /\ df0 = neale_df
    /\ \A k \in 1..Len(calls) : calls[k].fn = "lift_over" =>
           \A j \in 1..k : ~IsNealeCall(j)
    /\ \A k \in 1..Len(calls) : (IsNealeCall(k) /\ initial_build = "hg19") =>
           \E i \in 1..k : \E j \in i..k :
               /\ calls[i] = Call("lift_over", calls[i].table)
               /\ calls[j] = Return("lift_over", calls[k].table)
               /\ \A n \in 1..Len(calls[k].table) :
                      LiftedFrom(calls[k].table[n], calls[i].table)

\* neale_wrangler is running in an hg19 run, on a table lift_over returned
C14_Witness ==
    /\ stack = "neale_wrangler" /\ pc = "nw_loop"
    /\ initial_build = "hg19"
    /\ \E k \in 1..Len(calls) : calls[k].fn = "lift_over" /\ calls[k].event = "return"

\* the coordinates of record r are those of a shard row of its rsID
FromShard(r) ==
    \E c \in DOMAIN shards : \E k \in 1..Len(shards[c]) :
        /\ shards[c][k].RSID = r.SNP
        /\ "chr" \o r.CHR = split_get(shards[c][k].ID, "_", 0)
        /\ r.BP = split_get(shards[c][k].ID, "_", 1)

\* the coordinates of record r were made by lift_over
FromLift(r) ==
    \E k \in 1..Len(calls) :
        /\ calls[k] = Call("lift_over", calls[k].table)
        /\ LiftedFrom(r, calls[k].table)

\* C17: in an hg19 run every record of the table reformat_gwas puts together
\* has hg38 coordinates, taken from a shard or made by lift_over (or has no
\* coordinates at all).
C17_AllTargetBuild ==
    (pc = "rg_done" /\ initial_build = "hg19") =>
        \A i \in 1..Len(ret) :
            \/ IsNull(ret[i].CHR) /\ IsNull(ret[i].BP)
            \/ FromShard(ret[i])
            \/ FromLift(ret[i])
====
